---- MODULE Spec2Model ----
(***************************************************************************)
(* A model of the DayZ types.xml generator (src/types_generator.py): the   *)
(* TypeEntry record with its XML conversions from_xml / to_xml, and the    *)
(* list management of MainWindow (entries, category_pool, current_path and *)
(* the list widget's current row).                                         *)
(*                                                                         *)
(* Representation.  A Python str is a sequence of one-character strings,   *)
(* so that concatenation, strip(), int() and sorted() are computed and not *)
(* assumed.  An Optional value is a sequence of length at most one:        *)
(* None is << >> and a present value v is << v >>.  An ElementTree element *)
(* is a record [tag, attrib, text, children].                              *)
(***************************************************************************)
EXTENDS Integers, Sequences, FiniteSets, TLC

VARIABLES
    win,    \* the MainWindow object: its fields and the state of its widgets
    last,   \* the handler that ran last, with the input it was given
    rt      \* a TypeEntry taken through to_xml and from_xml

vars == << win, last, rt >>

(***************************************************************************)
(* Bounds of the model.                                                    *)
(***************************************************************************)
MaxEntries == 3
MaxNameLen == 6
MaxListLen == 2

(***************************************************************************)
(* Python values.                                                          *)
(***************************************************************************)
None == << >>

Some(v) == << v >>

\* The characters the model uses, in code point order.
Chars == << "\t", "\n", " ", "+", "-",
            "0", "1", "2", "3", "4", "5", "6", "7", "8", "9",
            "C", "T", "_",
            "a", "b", "c", "d", "e", "f", "g", "h", "i", "j", "k", "l", "m",
            "n", "o", "p", "q", "r", "s", "t", "u", "v", "w", "x", "y", "z" >>

\* ord(c), up to the gaps between the characters of Chars.
OrdTable ==
    [c \in { Chars[i] : i \in 1..Len(Chars) } |->
        CHOOSE i \in 1..Len(Chars) : Chars[i] = c]

Ord(c) == OrdTable[c]

Digits == << "0", "1", "2", "3", "4", "5", "6", "7", "8", "9" >>

IsDigit(c) == \E i \in 1..10 : Digits[i] = c

DigitVal(c) == (CHOOSE i \in 1..10 : Digits[i] = c) - 1

Whitespace == { " ", "\t", "\n" }

\* str < str: lexicographic by code point.
RECURSIVE StrLess(_, _)
StrLess(a, b) ==
    IF b = << >> THEN FALSE
    ELSE IF a = << >> THEN TRUE
    ELSE IF a[1] # b[1] THEN Ord(a[1]) < Ord(b[1])
    ELSE StrLess(Tail(a), Tail(b))

\* sorted(S) of a set of str: the elements in ascending order.
RECURSIVE insort(_, _)
insort(seq, x) ==
    IF seq = << >> THEN << x >>
    ELSE IF StrLess(x, seq[1]) THEN << x >> \o seq
    ELSE << seq[1] >> \o insort(Tail(seq), x)

RECURSIVE sorted(_)
sorted(S) ==
    IF S = {} THEN << >>
    ELSE LET x == CHOOSE y \in S : TRUE
         IN  insort(sorted(S \ {x}), x)

\* str.strip()
RECURSIVE lstrip(_)
lstrip(s) ==
    IF s # << >> /\ s[1] \in Whitespace THEN lstrip(Tail(s)) ELSE s

RECURSIVE rstrip(_)
rstrip(s) ==
    IF s # << >> /\ s[Len(s)] \in Whitespace
    THEN rstrip(SubSeq(s, 1, Len(s) - 1))
    ELSE s

strip(s) == rstrip(lstrip(s))

\* str(n) of an int: the decimal numeral.
RECURSIVE NatToStr(_)
NatToStr(n) ==
    IF n < 10 THEN << Digits[n + 1] >>
    ELSE NatToStr(n \div 10) \o << Digits[(n % 10) + 1] >>

IntToStr(n) == IF n < 0 THEN << "-" >> \o NatToStr(-n) ELSE NatToStr(n)

\* The value of a digit string in which single underscores may separate digits.
RECURSIVE DigitsVal(_, _)
DigitsVal(s, acc) ==
    IF s = << >> THEN acc
    ELSE IF s[1] = "_" THEN DigitsVal(Tail(s), acc)
    ELSE DigitsVal(Tail(s), 10 * acc + DigitVal(s[1]))

IsNumeral(s) ==
    /\ s # << >>
    /\ IsDigit(s[1])
    /\ IsDigit(s[Len(s)])
    /\ \A i \in 1..Len(s) : IsDigit(s[i]) \/ s[i] = "_"
    /\ \A i \in 1..(Len(s) - 1) : ~(s[i] = "_" /\ s[i + 1] = "_")

\* int(s) of a str: Some(value), or None where Python raises ValueError.
ParseInt(s) ==
    LET t    == strip(s)
        sign == t # << >> /\ t[1] \in { "+", "-" }
        body == IF sign THEN Tail(t) ELSE t
    IN  IF ~IsNumeral(body) THEN None
        ELSE IF sign /\ t[1] = "-" THEN Some(-DigitsVal(body, 0))
        ELSE Some(DigitsVal(body, 0))

(***************************************************************************)
(* xml.etree.ElementTree elements.                                         *)
(***************************************************************************)
NoAttrib == [k \in {} |-> << >>]

Element(tag, attrib, text, children) ==
    [tag |-> tag, attrib |-> attrib, text |-> text, children |-> children]

\* ET.SubElement(parent, tag) followed by one .set(key, value)
NamedElement(tag, value) == Element(tag, ("name" :> value), None, << >>)

\* elem.get(key): None when the attribute is missing.
get(elem, key) ==
    IF key \in DOMAIN elem.attrib THEN Some(elem.attrib[key]) ELSE None

\* elem.findall(tag): the direct children with that tag, in document order.
findall(elem, tag) ==
    LET HasTag(c) == c.tag = tag IN SelectSeq(elem.children, HasTag)

\* elem.find(tag): the first such child, or None.
find(elem, tag) ==
    LET all == findall(elem, tag)
    IN  IF all = << >> THEN None ELSE Some(all[1])

(***************************************************************************)
(* TypeEntry.                                                              *)
(***************************************************************************)
IntFields ==
    << "nominal", "lifetime", "restock", "min", "quantmin", "quantmax", "cost" >>

FlagKeys ==
    << "count_in_cargo", "count_in_hoarder", "count_in_map",
       "count_in_player", "crafted", "deloot" >>

FlagKeySet == { FlagKeys[i] : i \in 1..Len(FlagKeys) }

\* The default_factory of TypeEntry.flags.
DefaultFlags == [k \in FlagKeySet |-> IF k = "count_in_map" THEN 1 ELSE 0]

\* TypeEntry(name=name): every other field at its default.
TypeEntry(name) ==
    [name |-> name,
     nominal |-> None, lifetime |-> None, restock |-> None, min |-> None,
     quantmin |-> None, quantmax |-> None, cost |-> None,
     flags |-> DefaultFlags,
     category |-> None,
     usages |-> << >>, values |-> << >>, tags |-> << >>]

\* Python truthiness of an Optional[str]: neither None nor "".
Truthy(o) == o # None /\ o[1] # << >>

\* get_int with "except ValueError: return 0": text that is no integer
\* reads as 0.
get_int_zero_on_error(elem, tag) ==
    LET t == find(elem, tag)
    IN  IF t # None
           /\ strip(IF t[1].text = None THEN << >> ELSE t[1].text[1]) # << >>
        THEN IF ParseInt(strip(t[1].text[1])) = None THEN Some(0)
             ELSE ParseInt(strip(t[1].text[1]))
        ELSE None

\* get_int of from_xml.
get_int(elem, tag) ==
    LET t == find(elem, tag)
    IN  IF t # None
           /\ strip(IF t[1].text = None THEN << >> ELSE t[1].text[1]) # << >>
        THEN ParseInt(strip(t[1].text[1]))
        ELSE None

\* The flags loop of from_xml.
parse_flags(elem) ==
    LET flags_elem == find(elem, "flags")
    IN  IF flags_elem = None THEN DefaultFlags
        ELSE [k \in FlagKeySet |->
                LET v == get(flags_elem[1], k)
                IN  IF v = None \/ ParseInt(v[1]) = None
                    THEN DefaultFlags[k]
                    ELSE ParseInt(v[1])[1]]

\* [u.get("name") for u in elem.findall(tag) if u.get("name")]
RECURSIVE truthy_names(_)
truthy_names(elems) ==
    IF elems = << >> THEN << >>
    ELSE LET n == get(elems[1], "name")
         IN  (IF Truthy(n) THEN << n[1] >> ELSE << >>)
             \o truthy_names(Tail(elems))

names_of(elem, tag) == truthy_names(findall(elem, tag))

from_xml(elem) ==
    LET name     == IF get(elem, "name") = None THEN << >>
                    ELSE get(elem, "name")[1]
        cat_elem == find(elem, "category")
    IN  [TypeEntry(name) EXCEPT
           !.nominal  = get_int(elem, "nominal"),
           !.lifetime = get_int(elem, "lifetime"),
           !.restock  = get_int(elem, "restock"),
           !.min      = get_int(elem, "min"),
           !.quantmin = get_int(elem, "quantmin"),
           !.quantmax = get_int(elem, "quantmax"),
           !.cost     = get_int(elem, "cost"),
           !.flags    = parse_flags(elem),
           !.category = IF cat_elem # None THEN get(cat_elem[1], "name") ELSE @,
           !.usages   = names_of(elem, "usage"),
           !.values   = names_of(elem, "value"),
           !.tags     = names_of(elem, "tag")]

\* put_int with "if val:" for "if val is not None:": a 0 is left out.
put_int_truthy(tag, val) ==
    IF val # None /\ val[1] # 0
    THEN << Element(tag, NoAttrib, Some(IntToStr(val[1])), << >>) >>
    ELSE << >>

\* put_int that writes an unset field as 0 instead of leaving it out.
put_int_or_zero(tag, val) ==
    << Element(tag, NoAttrib,
               Some(IntToStr(IF val # None THEN val[1] ELSE 0)), << >>) >>

\* put_int of to_xml: the children it appends.
put_int(tag, val) ==
    IF val # None
    THEN << Element(tag, NoAttrib, Some(IntToStr(val[1])), << >>) >>
    ELSE << >>

\* A flags element that carries only the flags that are set.
flags_xml_set_only(flags) ==
    Element("flags",
            [k \in { j \in FlagKeySet : flags[j] # 0 } |-> IntToStr(flags[k])],
            None, << >>)

\* The flags element of to_xml (its guard ends in "or True").
flags_xml(flags) ==
    Element("flags", [k \in FlagKeySet |-> IntToStr(flags[k])], None, << >>)

named_elements(tag, names) ==
    [i \in 1..Len(names) |-> NamedElement(tag, names[i])]

to_xml(self) ==
    Element("type", ("name" :> self.name), None,
            put_int("nominal", self.nominal)
         \o put_int("lifetime", self.lifetime)
         \o put_int("restock", self.restock)
         \o put_int("min", self.min)
         \o put_int("quantmin", self.quantmin)
         \o put_int("quantmax", self.quantmax)
         \o put_int("cost", self.cost)
         \o << flags_xml(self.flags) >>
         \o (IF Truthy(self.category)
             THEN << NamedElement("category", self.category[1]) >>
             ELSE << >>)
         \o named_elements("usage", self.usages)
         \o named_elements("value", self.values)
         \o named_elements("tag", self.tags))

(***************************************************************************)
(* Preset dropdown options.                                                *)
(***************************************************************************)
CATEGORY_PRESETS ==
    << << "w", "e", "a", "p", "o", "n", "s" >>,
       << "f", "o", "o", "d" >>,
       << "t", "o", "o", "l", "s" >>,
       << "c", "l", "o", "t", "h", "e", "s" >>,
       << "b", "o", "o", "k", "s" >>,
       << "c", "o", "n", "t", "a", "i", "n", "e", "r", "s" >>,
       << "e", "x", "p", "l", "o", "s", "i", "v", "e", "s" >>,
       << "l", "o", "o", "t", "d", "i", "s", "p", "a", "t", "c", "h" >> >>

Range(seq) == { seq[i] : i \in 1..Len(seq) }

\* list(dict.fromkeys(seq)): the first occurrence of each element, in order.
RECURSIVE fromkeys_onto(_, _)
fromkeys_onto(done, seq) ==
    IF seq = << >> THEN done
    ELSE IF \E i \in 1..Len(done) : done[i] = seq[1]
         THEN fromkeys_onto(done, Tail(seq))
         ELSE fromkeys_onto(Append(done, seq[1]), Tail(seq))

fromkeys(seq) == fromkeys_onto(<< >>, seq)

(***************************************************************************)
(* The editor form as Save reads it (TypeEditor.collect_entry).  A spin    *)
(* box is read as None when its text is empty and as its value otherwise;  *)
(* a check box is read as 1 or 0.                                          *)
(***************************************************************************)
collect_entry(form) ==
    LET name == strip(form.name)
        cat  == strip(form.category)
    IN  IF name = << >> THEN None
        ELSE Some([TypeEntry(name) EXCEPT
                     !.nominal  = form.nominal,
                     !.lifetime = form.lifetime,
                     !.restock  = form.restock,
                     !.min      = form.min,
                     !.quantmin = form.quantmin,
                     !.quantmax = form.quantmax,
                     !.cost     = form.cost,
                     !.flags    = [k \in FlagKeySet |->
                                     IF form.checks[k] THEN 1 ELSE 0],
                     !.category = IF cat # << >> THEN Some(cat) ELSE None,
                     !.usages   = form.usages,
                     !.values   = form.values,
                     !.tags     = form.tags])

(***************************************************************************)
(* MainWindow.  A handler is a function from the window's state (and the   *)
(* user's input) to the window's state when the handler returns.  Rows are *)
(* numbered from 0 as in the code; currentRow is -1 when the list widget   *)
(* has no current item.                                                    *)
(***************************************************************************)
\* MainWindow.__init__
InitWin ==
    [entries          |-> << >>,
     category_pool    |-> << >>,
     current_path     |-> None,
     list_items       |-> << >>,
     currentRow       |-> -1,
     editor_current   |-> None,
     category_options |-> CATEGORY_PRESETS,
     dialog           |-> "",
     uncaught         |-> ""]

\* A handler starts with no message box shown and no exception raised.
Begin(s) == [s EXCEPT !.dialog = "", !.uncaught = ""]

\* TypeEditor.load_entry
load_entry(s, entry) == [s EXCEPT !.editor_current = entry]

\* TypeEditor.set_category_options
set_category_options(s, categories) ==
    [s EXCEPT !.category_options =
        fromkeys(CATEGORY_PRESETS \o sorted(Range(categories)))]

\* MainWindow.on_select, the slot of list.currentItemChanged; cur is the
\* row of the new current item, or -1 for no item.
on_select(s, cur) ==
    IF cur = -1 THEN load_entry(s, None)
    ELSE IF 0 <= cur /\ cur < Len(s.entries)
         THEN load_entry(s, Some(s.entries[cur + 1]))
         ELSE s

\* QListWidget.setCurrentRow: a row outside the list means no current item;
\* currentItemChanged is emitted when the current item changes.
setCurrentRow(s, row) ==
    LET new == IF 0 <= row /\ row < Len(s.list_items) THEN row ELSE -1
    IN  IF new = s.currentRow THEN s
        ELSE on_select([s EXCEPT !.currentRow = new], new)

\* A clear that removes the items and leaves the current row as it was.
list_clear_keeps_current(s) == [s EXCEPT !.list_items = << >>]

\* QListWidget.clear: the selection model is cleared (currentItemChanged
\* is emitted when there was a current item), then the items are removed.
list_clear(s) ==
    [setCurrentRow(s, -1) EXCEPT !.list_items = << >>]

\* MainWindow.refresh_list
refresh_list(s) ==
    LET cleared == list_clear(s)
        filled  == [cleared EXCEPT !.list_items =
                       [i \in 1..Len(s.entries) |-> s.entries[i].name]]
    IN  set_category_options(filled, filled.category_pool)

\* MainWindow.new_type
new_type(s) == load_entry(setCurrentRow(s, -1), None)

\* The TypeEntry built by duplicate_type.
dup_of(src) == [src EXCEPT !.name = src.name \o << "_", "C", "o", "p", "y" >>]

\* list.append(x) where list.insert(i, x) was meant.
insert_at_end(seq, i, x) == Append(seq, x)

\* list.insert(i, x) at a 0-based position i.
insert(seq, i, x) == SubSeq(seq, 1, i) \o << x >> \o SubSeq(seq, i + 1, Len(seq))

\* del seq[i] at a 0-based position i.
del(seq, i) == SubSeq(seq, 1, i) \o SubSeq(seq, i + 2, Len(seq))

\* The first argument where min(a, b) was meant.
Min_first(a, b) == a

Min(a, b) == IF a <= b THEN a ELSE b

\* MainWindow.duplicate_type
duplicate_type(s) ==
    IF s.currentRow = -1 THEN s
    ELSE LET idx == s.currentRow
             dup == dup_of(s.entries[idx + 1])
             ins == [s EXCEPT !.entries = insert(@, idx + 1, dup)]
         IN  setCurrentRow(refresh_list(ins), idx + 1)

\* MainWindow.delete_type
delete_type(s) ==
    IF s.currentRow = -1 THEN s
    ELSE LET idx  == s.currentRow
             gone == refresh_list([s EXCEPT !.entries = del(@, idx)])
         IN  IF gone.entries # << >>
             THEN setCurrentRow(gone, Min(idx, Len(gone.entries) - 1))
             ELSE gone

\* A name check that never finds the name.
name_exists_never(ents, name) == FALSE

\* any(e.name == name for e in entries)
name_exists(ents, name) == \E i \in 1..Len(ents) : ents[i].name = name

\* any(e.name == name for i, e in enumerate(entries) if i != idx)
name_exists_elsewhere(ents, name, idx) ==
    \E i \in 1..Len(ents) : i - 1 # idx /\ ents[i].name = name

\* The end of save_selected_changes without the test "not in
\* self.category_pool": a category is appended whether the pool has it or not.
after_save_always_pools(s, entry) ==
    LET pooled == IF Truthy(entry.category)
                  THEN [s EXCEPT !.category_pool = Append(@, entry.category[1])]
                  ELSE s
        shown  == refresh_list(pooled)
        hits   == { i \in 0..(Len(shown.entries) - 1) :
                      shown.entries[i + 1].name = entry.name }
    IN  IF hits = {} THEN shown
        ELSE setCurrentRow(shown, CHOOSE i \in hits : \A j \in hits : i <= j)

\* The end of save_selected_changes: the category pool, the list and the
\* selection of the first entry that carries the saved name.
after_save(s, entry) ==
    LET pooled == IF Truthy(entry.category)
                     /\ entry.category[1] \notin Range(s.category_pool)
                  THEN [s EXCEPT !.category_pool = Append(@, entry.category[1])]
                  ELSE s
        shown  == refresh_list(pooled)
        hits   == { i \in 0..(Len(shown.entries) - 1) :
                      shown.entries[i + 1].name = entry.name }
    IN  IF hits = {} THEN shown
        ELSE setCurrentRow(shown, CHOOSE i \in hits : \A j \in hits : i <= j)

\* MainWindow.save_selected_changes.  In the branch that updates the
\* selected entry the assignment reads the name entryry, which is bound
\* nowhere: Python raises NameError there and the handler ends.
save_selected_changes(s, form) ==
    LET collected == collect_entry(form)
    IN  IF collected = None THEN [s EXCEPT !.dialog = "Validation"]
        ELSE LET entry == collected[1]
             IN  IF s.currentRow = -1 \/ s.editor_current = None
                 THEN IF name_exists(s.entries, entry.name)
                      THEN [s EXCEPT !.dialog = "Duplicate"]
                      ELSE after_save([s EXCEPT !.entries = Append(@, entry)],
                                      entry)
                 ELSE IF name_exists_elsewhere(s.entries, entry.name,
                                               s.currentRow)
                      THEN [s EXCEPT !.dialog = "Duplicate"]
                      ELSE [s EXCEPT !.uncaught = "NameError"]

\* MainWindow.action_new; confirmed is the answer to the Discard prompt.
action_new(s, confirmed) ==
    IF ~confirmed THEN s
    ELSE LET emptied == refresh_list([s EXCEPT !.entries = << >>,
                                               !.category_pool = << >>])
         IN  [load_entry(emptied, None) EXCEPT !.current_path = None]

\* The loop over every child of the root, whatever its tag.
import_entries_of_all_children(root) ==
    [i \in 1..Len(root.children) |-> from_xml(root.children[i])]

\* The loop of action_import over root.findall("type").
import_entries(root) ==
    LET types == findall(root, "type")
    IN  [i \in 1..Len(types) |-> from_xml(types[i])]

\* The set cats of action_import.
import_cats(ents) ==
    { ents[i].category[1] : i \in { j \in 1..Len(ents) : Truthy(ents[j].category) } }

\* A pool that keeps the categories it held before the import.
import_pool_accumulate(s, ents) ==
    sorted(Range(CATEGORY_PRESETS) \cup import_cats(ents)
                                   \cup Range(s.category_pool))

\* The pool action_import assigns: sorted(set(CATEGORY_PRESETS).union(cats)).
import_pool(s, ents) == sorted(Range(CATEGORY_PRESETS) \cup import_cats(ents))

\* A root check that accepts any root tag.
root_ok_any_tag(parsed) == parsed # None

\* Whether the try block of action_import gets past its root check: ET.parse
\* did not raise and root.tag is "types".
root_ok(parsed) == parsed # None /\ parsed[1].tag = "types"

\* MainWindow.action_import; path is the file dialog's answer ("" when
\* cancelled) and parsed is ET.parse(path).getroot(), or None when ET.parse
\* raises.
action_import(s, path, parsed) ==
    IF path = "" THEN s
    ELSE IF ~root_ok(parsed)
    THEN [s EXCEPT !.dialog = "Import Failed"]
    ELSE LET ents   == import_entries(parsed[1])
             loaded == refresh_list(
                         [s EXCEPT !.entries = ents,
                                   !.category_pool = import_pool(s, ents)])
             pathed == [loaded EXCEPT !.current_path = Some(path)]
         IN  IF pathed.entries # << >> THEN setCurrentRow(pathed, 0)
             ELSE pathed

(***************************************************************************)
(* The inputs of the model: what the user types into the editor form and   *)
(* the files the import dialog can name.                                   *)
(***************************************************************************)
\* A form with the spin boxes and check boxes as new_type leaves them
\* (count_in_map checked) and Nominal moved to 0.
Form(name, category) ==
    [name |-> name, nominal |-> Some(0), lifetime |-> None, restock |-> None,
     min |-> None, quantmin |-> None, quantmax |-> None, cost |-> None,
     checks |-> [k \in FlagKeySet |-> k = "count_in_map"],
     category |-> category,
     usages |-> << >>, values |-> << >>, tags |-> << >>]

NoForm == Form(<< >>, << >>)

Forms ==
    { NoForm,
      Form(<< "a" >>, << " ", "z", "z" >>),
      Form(<< " ", "b", " " >>, << >>) }

TextElement(tag, text) == Element(tag, NoAttrib, Some(text), << >>)

\* <types> with two types, of categories zz and food
FileA ==
    Element("types", NoAttrib, None,
      << Element("type", ("name" :> << "a" >>), None,
           << TextElement("nominal", << " ", "7", "\n" >>),
              TextElement("cost", << "x" >>),
              Element("flags", ("crafted" :> << "2" >>) @@ ("deloot" :> << "n", "o" >>),
                      None, << >>),
              NamedElement("category", << "z", "z" >>),
              NamedElement("usage", << "f", "a", "r", "m" >>),
              NamedElement("usage", << >>) >>),
         Element("type", ("name" :> << "c" >>), None,
           << NamedElement("category", << "f", "o", "o", "d" >>) >>) >>)

\* <types> with two types, of categories zz and mm, and a node that is no type
FileB ==
    Element("types", NoAttrib, None,
      << Element("type", ("name" :> << "b" >>), None,
           << NamedElement("category", << "z", "z" >>) >>),
         Element("comment", NoAttrib, None, << >>),
         Element("type", ("name" :> << "d" >>), None,
           << NamedElement("category", << "m", "m" >>) >>) >>)

\* <types/>
FileEmpty == Element("types", NoAttrib, None, << >>)

\* <items> holding a type
FileItems ==
    Element("items", NoAttrib, None,
      << Element("type", ("name" :> << "q" >>), None,
           << NamedElement("category", << "q", "q" >>) >>) >>)

Paths == { "", "broken.xml", "items.xml", "a.xml", "b.xml", "empty.xml" }

\* ET.parse(path).getroot(): None where ET.parse raises ParseError.
parse(path) ==
    CASE path = "a.xml"     -> Some(FileA)
      [] path = "b.xml"     -> Some(FileB)
      [] path = "empty.xml" -> Some(FileEmpty)
      [] path = "items.xml" -> Some(FileItems)
      [] OTHER              -> None

(***************************************************************************)
(* The specification of the editor: one action per handler.                *)
(***************************************************************************)
\* A handler with its input.  imported_before is the file the handler that
\* ran before it imported, or "" when that handler imported nothing.
Op(op, form, path, confirmed) ==
    [op |-> op, form |-> form, path |-> path, confirmed |-> confirmed,
     imported_before |-> ""]

JustImported ==
    IF last.op = "import" /\ last.path # "" /\ win.dialog = ""
    THEN last.path ELSE ""

RtIdle ==
    [pc |-> "idle", origin |-> "none", src |-> None,
     r |-> None, node |-> None, back |-> None]

Init ==
    /\ win = InitWin
    /\ last = Op("init", NoForm, "", FALSE)
    /\ rt = RtIdle

\* What every handler does around its body.
Handle(op, result) ==
    /\ Len(result.entries) <= MaxEntries
    /\ \A i \in 1..Len(result.entries) : Len(result.entries[i].name) <= MaxNameLen
    /\ win' = result
    /\ last' = [op EXCEPT !.imported_before = JustImported]
    /\ UNCHANGED rt

Select ==
    \E row \in 0..(Len(win.list_items) - 1) :
        Handle(Op("select", NoForm, "", FALSE),
               setCurrentRow(Begin(win), row))

NewType ==
    Handle(Op("new_type", NoForm, "", FALSE), new_type(Begin(win)))

Duplicate ==
    Handle(Op("duplicate", NoForm, "", FALSE), duplicate_type(Begin(win)))

Delete ==
    Handle(Op("delete", NoForm, "", FALSE), delete_type(Begin(win)))

Save ==
    \E form \in Forms :
        Handle(Op("save", form, "", FALSE),
               save_selected_changes(Begin(win), form))

NewList ==
    \E confirmed \in BOOLEAN :
        Handle(Op("new", NoForm, "", confirmed),
               action_new(Begin(win), confirmed))

Import ==
    \E path \in Paths :
        Handle(Op("import", NoForm, path, FALSE),
               action_import(Begin(win), path, parse(path)))

Next ==
    \/ Select
    \/ NewType
    \/ Duplicate
    \/ Delete
    \/ Save
    \/ NewList
    \/ Import

Spec == Init /\ [][Next]_vars

(***************************************************************************)
(* The specification of the conversions: a TypeEntry drawn from a bounded  *)
(* set is serialized by to_xml and the node is parsed back by from_xml.    *)
(***************************************************************************)
SeqsUpTo(S, n) == UNION { [1..k -> S] : k \in 0..n }

AllZeroFlags == [k \in FlagKeySet |-> 0]

OddFlags == [DefaultFlags EXCEPT !["crafted"] = 2, !["deloot"] = -1]

Records ==
    { [name |-> << "a" >>,
       nominal |-> nominal, lifetime |-> lifetime, restock |-> restock,
       min |-> min, quantmin |-> quantmin, quantmax |-> quantmax, cost |-> cost,
       flags |-> flags, category |-> category,
       usages |-> usages, values |-> values, tags |-> tags] :
      nominal  \in { None, Some(0), Some(-1), Some(120) },
      lifetime \in { None, Some(3600) },
      restock  \in { None, Some(0) },
      min      \in { None, Some(7) },
      quantmin \in { None, Some(-1) },
      quantmax \in { None, Some(100) },
      cost     \in { None, Some(0) },
      flags    \in { DefaultFlags, AllZeroFlags, OddFlags },
      category \in { None, Some(<< >>), Some(<< "z", "z" >>) },
      usages   \in SeqsUpTo({ << >>, << "f", "a", "r", "m" >> }, MaxListLen),
      values   \in { << >>, << << "T", "1" >> >> },
      tags     \in { << >>, << << "f", "l", "o", "o", "r" >>, << "f", "l", "o", "o", "r" >> >> } }

\* The children a type node of a document may hold under one tag.
IntChildren(tag) ==
    { << >>,
      << Element(tag, NoAttrib, None, << >>) >>,
      << TextElement(tag, << >>) >>,
      << TextElement(tag, << " ", "\n" >>) >>,
      << TextElement(tag, << "x" >>) >>,
      << TextElement(tag, << "7", "x" >>) >>,
      << TextElement(tag, << " ", "7", "\n" >>) >>,
      << TextElement(tag, << "-", "3" >>) >> }

FlagsChildren ==
    { << >>,
      << Element("flags", NoAttrib, None, << >>) >>,
      << Element("flags", ("crafted" :> << "2" >>) @@ ("deloot" :> << "-", "1" >>),
                 None, << >>) >>,
      << Element("flags", ("count_in_map" :> << "0" >>), None, << >>) >>,
      << Element("flags", ("count_in_map" :> << "n", "o" >>)
                          @@ ("crafted" :> << "1" >>), None, << >>) >>,
      << Element("flags", ("bogus" :> << "1" >>)
                          @@ ("count_in_cargo" :> << " ", "1" >>)
                          @@ ("count_in_map" :> << >>), None, << >>) >> }

CategoryChildren ==
    { << >>,
      << Element("category", NoAttrib, None, << >>) >>,
      << NamedElement("category", << >>) >>,
      << NamedElement("category", << "z", "z" >>) >> }

UsageChildren ==
    { << >>,
      << NamedElement("usage", << "f", "a", "r", "m" >>),
         NamedElement("usage", << >>) >> }

\* The type nodes from_xml is given: with and without a name attribute,
\* with regular and anomalous children.
Nodes ==
    { Element("type", attrib, None, nominal \o cost \o flags \o category \o usage) :
      attrib   \in { NoAttrib, ("name" :> << "a" >>) },
      nominal  \in IntChildren("nominal"),
      cost     \in { << >>, << TextElement("cost", << "+", "5" >>) >>,
                     << TextElement("cost", << "1", "_" >>) >> },
      flags    \in FlagsChildren,
      category \in CategoryChildren,
      usage    \in UsageChildren }

\* The check boxes of the editor form: none, the one new_type leaves
\* checked, all.
Checks ==
    { [k \in FlagKeySet |-> FALSE],
      [k \in FlagKeySet |-> k = "count_in_map"],
      [k \in FlagKeySet |-> TRUE] }

\* The forms collect_entry is given.
EditorForms ==
    { [Form(name, category) EXCEPT !.checks = checks, !.nominal = nominal] :
      name     \in { << >>, << " " >>, << "a" >>, << " ", "b", " " >> },
      category \in { << >>, << " ", "z", "z" >> },
      checks   \in Checks,
      nominal  \in { None, Some(0) } }

\* A conversion under way: origin tells where the TypeEntry r comes from
\* (drawn as a value, parsed from the node src, or collected from the
\* form src), node is to_xml(r) and back is from_xml(node).
Rt(pc, origin, src, r) ==
    [pc |-> pc, origin |-> origin, src |-> src,
     r |-> r, node |-> None, back |-> None]

InitRT ==
    /\ win = InitWin
    /\ last = Op("init", NoForm, "", FALSE)
    /\ rt \in { Rt("entry", "drawn", None, Some(r)) : r \in Records }
           \cup { Rt("doc", "parsed", Some(n), None) : n \in Nodes }
           \cup { Rt("form", "saved", Some(f), None) : f \in EditorForms }

\* from_xml on a type node of a document.
ParseNode ==
    /\ rt.pc = "doc"
    /\ rt' = [rt EXCEPT !.pc = "entry", !.r = Some(from_xml(rt.src[1]))]
    /\ UNCHANGED << win, last >>

\* collect_entry on the editor form: a form without a name gives no entry.
Collect ==
    /\ rt.pc = "form"
    /\ LET entry == collect_entry(rt.src[1])
       IN  rt' = [rt EXCEPT !.pc = IF entry = None THEN "rejected" ELSE "entry",
                            !.r  = entry]
    /\ UNCHANGED << win, last >>

ToXml ==
    /\ rt.pc = "entry"
    /\ rt' = [rt EXCEPT !.pc = "xml", !.node = Some(to_xml(rt.r[1]))]
    /\ UNCHANGED << win, last >>

FromXml ==
    /\ rt.pc = "xml"
    /\ rt' = [rt EXCEPT !.pc = "parsed", !.back = Some(from_xml(rt.node[1]))]
    /\ UNCHANGED << win, last >>

NextRT ==
    \/ ParseNode
    \/ Collect
    \/ ToXml
    \/ FromXml

RoundTripSpec == InitRT /\ [][NextRT]_vars

(***************************************************************************)
(* Properties.                                                             *)
(***************************************************************************)
NonEmptyStrings(seq) == \A i \in 1..Len(seq) : seq[i] # << >>

\* The records C1 speaks of: category absent or a non-empty string (the
\* optional integers of every record drawn are absent or an integer).
CategoryAbsentOrNonEmpty(r) == r.category = None \/ r.category[1] # << >>

RoundTripped == rt.pc = "parsed"

\* C1 as stated: for every TypeEntry whose category is absent or non-empty
\* and whose usages, values and tags are arbitrary sequences of strings,
\* from_xml(to_xml(r)) equals r field for field.
C1_RoundTripAnyStrings ==
    (RoundTripped /\ CategoryAbsentOrNonEmpty(rt.r[1]))
        => \A f \in DOMAIN rt.r[1] : rt.back[1][f] = rt.r[1][f]

\* C1 as amended: for every TypeEntry whose category is absent or non-empty
\* and whose usages, values and tags are sequences of non-empty strings,
\* from_xml(to_xml(r)) equals r field for field: same name, same optional
\* integers (0 stays 0, absent stays absent), same flags, same category and
\* the same usages, values and tags in the same order.
C1_RoundTrip ==
    (/\ RoundTripped
     /\ CategoryAbsentOrNonEmpty(rt.r[1])
     /\ NonEmptyStrings(rt.r[1].usages)
     /\ NonEmptyStrings(rt.r[1].values)
     /\ NonEmptyStrings(rt.r[1].tags))
        => /\ DOMAIN rt.back[1] = DOMAIN rt.r[1]
           /\ \A f \in DOMAIN rt.r[1] : rt.back[1][f] = rt.r[1][f]

\* A record with a present 0, an absent integer, a category, non-default
\* flags and two usages has gone through to_xml and from_xml.
C1_Witness ==
    /\ RoundTripped
    /\ rt.r[1].nominal = Some(0)
    /\ rt.r[1].lifetime = None
    /\ rt.r[1].category = Some(<< "z", "z" >>)
    /\ rt.r[1].flags = OddFlags
    /\ Len(rt.r[1].usages) = 2
    /\ NonEmptyStrings(rt.r[1].usages)
    /\ rt.r[1].tags # << >>
    /\ rt.back[1] = rt.r[1]

\* C2: no two records of the collection have the same name.
C2_UniqueNames ==
    \A i, j \in 1..Len(win.entries) :
        i # j => win.entries[i].name # win.entries[j].name

\* The record a save with this form asks to store, as the claims see it:
\* the form's name without the surrounding blanks.
SavedName(form) == strip(form.name)

NameTaken(ents, name) == \E i \in 1..Len(ents) : ents[i].name = name

\* C3: a save with no position selected of a record whose name is the name
\* of a record in the collection is rejected and leaves the collection as
\* it was: same records in the same order (so the same length) and the same
\* derived category set.
C3_AddRejected ==
    [][ (/\ last'.op = "save"
         /\ win.currentRow = -1
         /\ SavedName(last'.form) # << >>
         /\ NameTaken(win.entries, SavedName(last'.form)))
        => /\ win'.dialog = "Duplicate"
           /\ win'.entries = win.entries
           /\ Len(win'.entries) = Len(win.entries)
           /\ win'.category_pool = win.category_pool
           /\ win'.category_options = win.category_options ]_vars

\* An add was rejected on a collection that holds records and has no
\* position selected.
C3_Witness ==
    /\ last.op = "save"
    /\ win.dialog = "Duplicate"
    /\ win.currentRow = -1
    /\ Len(win.entries) >= 2
    /\ NameTaken(win.entries, SavedName(last.form))

\* C4: a save while position idx is selected is rejected with the collection
\* unchanged when the new record's name is the name of a record at another
\* position; otherwise the record at idx is replaced by the new record, the
\* collection keeps its length and every other record stays in place.
C4_Update ==
    [][ (/\ last'.op = "save"
         /\ win.currentRow # -1
         /\ collect_entry(last'.form) # None)
        => LET idx == win.currentRow
               new == collect_entry(last'.form)[1]
           IN  IF \E i \in 1..Len(win.entries) :
                     i - 1 # idx /\ win.entries[i].name = new.name
               THEN win'.entries = win.entries
               ELSE /\ Len(win'.entries) = Len(win.entries)
                    /\ win'.entries[idx + 1] = new
                    /\ \A i \in 1..Len(win.entries) :
                         i - 1 # idx => win'.entries[i] = win.entries[i] ]_vars

\* C5: duplicating the record selected at position i of a collection of
\* length n yields a collection of length n+1 with one record inserted at
\* position i+1, whose name is the source's name followed by "_Copy" and
\* whose other fields are the source's; the records at 0..i stay in place
\* and those at i+1..n-1 move up by one.
C5_Duplicate ==
    [][ (last'.op = "duplicate" /\ win.currentRow # -1)
        => LET i   == win.currentRow
               n   == Len(win.entries)
               src == win.entries[i + 1]
               new == win'.entries[i + 2]
           IN  /\ Len(win'.entries) = n + 1
               /\ new.name = src.name \o << "_", "C", "o", "p", "y" >>
               /\ \A f \in (DOMAIN src) \ { "name" } : new[f] = src[f]
               /\ DOMAIN new = DOMAIN src
               /\ \A k \in 0..i : win'.entries[k + 1] = win.entries[k + 1]
               /\ \A k \in (i + 1)..(n - 1) :
                     win'.entries[k + 2] = win.entries[k + 1] ]_vars

\* A duplicate has inserted a copy at position 1 of a collection of three,
\* behind its source and ahead of a record that moved up.
C5_Witness ==
    /\ last.op = "duplicate"
    /\ Len(win.entries) = 3
    /\ win.currentRow = 1
    /\ win.entries[2].name = win.entries[1].name \o << "_", "C", "o", "p", "y" >>
    /\ win.entries[3].name # win.entries[2].name

\* C6: after deleting the record at the selected position idx the selection
\* is at min(idx, new length - 1) when records remain, and there is no
\* selection when the deleted record was the only one.
C6_DeleteSelects ==
    [][ (last'.op = "delete" /\ win.currentRow # -1)
        => LET idx  == win.currentRow
               left == Len(win'.entries)
           IN  /\ left = Len(win.entries) - 1
               /\ IF left = 0 THEN win'.currentRow = -1
                  ELSE IF idx <= left - 1 THEN win'.currentRow = idx
                  ELSE win'.currentRow = left - 1 ]_vars

\* A delete has left two records with the last one selected and shown in
\* the editor.
C6_Witness ==
    /\ last.op = "delete"
    /\ Len(win.entries) = 2
    /\ win.currentRow = 1
    /\ win.editor_current = Some(win.entries[2])

\* C7: importing a document that cannot be parsed, or whose root tag is not
\* types, fails and leaves the collection, the derived category set, the
\* current path and the selection as they were.
C7_ImportRejected ==
    [][ (/\ last'.op = "import"
         /\ last'.path # ""
         /\ \/ parse(last'.path) = None
            \/ parse(last'.path)[1].tag # "types")
        => /\ win'.dialog = "Import Failed"
           /\ win'.entries = win.entries
           /\ win'.category_pool = win.category_pool
           /\ win'.category_options = win.category_options
           /\ win'.current_path = win.current_path
           /\ win'.currentRow = win.currentRow
           /\ win'.list_items = win.list_items
           /\ win'.editor_current = win.editor_current ]_vars

\* The import of a document with root items has failed on a window that
\* holds an imported collection with a selection.
C7_Witness ==
    /\ last.op = "import"
    /\ last.path = "items.xml"
    /\ win.dialog = "Import Failed"
    /\ win.current_path # None
    /\ Len(win.entries) >= 2
    /\ win.currentRow # -1

\* The categories of a document: the non-empty category names of its types.
DocCategories(path) ==
    LET types == findall(parse(path)[1], "type")
        cats  == { from_xml(types[i]).category : i \in 1..Len(types) }
    IN  { c[1] : c \in { o \in cats : o # None /\ o[1] # << >> } }

Baseline == { CATEGORY_PRESETS[i] : i \in 1..Len(CATEGORY_PRESETS) }

\* Ascending with no duplicates: each element is below its successor.
StrictlySorted(seq) ==
    \A i \in 1..(Len(seq) - 1) : StrLess(seq[i], seq[i + 1])

Imports(path) ==
    path # "" /\ parse(path) # None /\ parse(path)[1].tag = "types"

\* Two documents whose category sets overlap and differ were imported one
\* after the other.
ImportedTwoOverlapping ==
    /\ last.op = "import"
    /\ Imports(last.path)
    /\ last.imported_before # ""
    /\ DocCategories(last.imported_before) \cap DocCategories(last.path) # {}
    /\ DocCategories(last.imported_before) # DocCategories(last.path)

\* C8 as stated: after importing two documents whose category sets overlap
\* but are not identical, the derived category set is the union of the
\* categories of both documents and the baseline, sorted, without duplicates.
C8_PoolIsUnionOfBoth ==
    ImportedTwoOverlapping
        => /\ StrictlySorted(win.category_pool)
           /\ Range(win.category_pool) =
                 Baseline \cup DocCategories(last.imported_before)
                          \cup DocCategories(last.path)

\* C8 as amended: after importing two such documents the derived category
\* set is the categories of the second document and the baseline, sorted,
\* without duplicates; a category only the first document has is not in it.
C8_PoolIsOfSecond ==
    ImportedTwoOverlapping
        => /\ StrictlySorted(win.category_pool)
           /\ Range(win.category_pool) = Baseline \cup DocCategories(last.path)

\* Two documents with overlapping, different category sets were imported
\* one after the other, and the first has a category that is neither in
\* the second nor in the baseline.
C8_Witness ==
    /\ ImportedTwoOverlapping
    /\ DocCategories(last.imported_before)
          \ (DocCategories(last.path) \cup Baseline) # {}

\* C9: a successful import replaces the collection with the records of the
\* document's type nodes in document order and sets the derived category
\* set to the sorted, duplicate-free union of the baseline and the non-empty
\* categories of the imported records; nothing of the prior collection or
\* category set survives.
C9_ImportReplaces ==
    [][ (last'.op = "import" /\ Imports(last'.path))
        => LET types == findall(parse(last'.path)[1], "type")
           IN  /\ Len(win'.entries) = Len(types)
               /\ \A i \in 1..Len(types) : win'.entries[i] = from_xml(types[i])
               /\ StrictlySorted(win'.category_pool)
               /\ Range(win'.category_pool) =
                     Baseline \cup DocCategories(last'.path)
               /\ win'.dialog = "" ]_vars

\* An import has replaced a collection: the handler before it had imported
\* another document, whose category mm is gone from the derived set.
C9_Witness ==
    /\ last.op = "import"
    /\ last.path = "a.xml"
    /\ last.imported_before = "b.xml"
    /\ win.current_path = Some("a.xml")
    /\ Len(win.entries) = 2
    /\ << "m", "m" >> \notin Range(win.category_pool)
    /\ << "z", "z" >> \in Range(win.category_pool)

\* The decimal numeral of an integer: digits only, a leading minus sign for
\* a negative number, no leading zero.
IsDecimalOf(text, n) ==
    /\ text # << >>
    /\ LET digits == IF text[1] = "-" THEN Tail(text) ELSE text
       IN  /\ digits # << >>
           /\ \A i \in 1..Len(digits) : IsDigit(digits[i])
           /\ (Len(digits) > 1 => digits[1] # "0")
           /\ (text[1] = "-") = (n < 0)
           /\ DigitsVal(digits, 0) = (IF n < 0 THEN -n ELSE n)

\* C10: for each of the seven optional integer fields, to_xml emits a child
\* with that tag if and only if the field is present, and then its text is
\* the field's decimal value: an absent field yields no child at all and a
\* present 0 yields a child with text 0.
C10_IntChildren ==
    rt.pc \in { "xml", "parsed" }
        => \A i \in 1..Len(IntFields) :
             LET tag  == IntFields[i]
                 val  == rt.r[1][tag]
                 kids == findall(rt.node[1], tag)
             IN  /\ val = None => kids = << >>
                 /\ val # None =>
                      /\ Len(kids) = 1
                      /\ kids[1].text # None
                      /\ IsDecimalOf(kids[1].text[1], val[1])
                      /\ kids[1].children = << >>
                      /\ (val[1] = 0 => kids[1].text = Some(<< "0" >>))

\* A record with nominal 0, lifetime absent and quantmin -1 was serialized.
C10_Witness ==
    /\ rt.pc = "xml"
    /\ rt.r[1].nominal = Some(0)
    /\ rt.r[1].lifetime = None
    /\ rt.r[1].quantmin = Some(-1)
    /\ rt.r[1].cost = None
    /\ Len(findall(rt.node[1], "nominal")) = 1
    /\ findall(rt.node[1], "lifetime") = << >>

\* The record under conversion was parsed from a type node or collected
\* from the editor form, and to_xml has serialized it.
SerializedReachable ==
    rt.pc \in { "xml", "parsed" } /\ rt.origin \in { "parsed", "saved" }

\* C11: serializing a record that from_xml parsed or that collect_entry
\* built, one whose six flags are all false included, yields exactly one
\* flags child, and that child carries the six attributes count_in_cargo,
\* count_in_hoarder, count_in_map, count_in_player, crafted and deloot.
C11_FlagsPresent ==
    SerializedReachable
        => LET fl == findall(rt.node[1], "flags")
           IN  /\ Len(fl) = 1
               /\ DOMAIN fl[1].attrib = FlagKeySet
               /\ Cardinality(DOMAIN fl[1].attrib) = 6

\* A record collected from a form with every box unchecked was serialized.
C11_Witness ==
    /\ rt.pc = "xml"
    /\ rt.origin = "saved"
    /\ rt.r[1].flags = AllZeroFlags
    /\ Len(findall(rt.node[1], "flags")) = 1

\* C12: every flag attribute written on serialization has the value 0 or
\* 1, whether the record was collected from the editor form or parsed from
\* a type node whose flag attributes hold any integer text (2 or -1, say).
C12_FlagsZeroOne ==
    SerializedReachable
        => LET fl == findall(rt.node[1], "flags")
           IN  \A i \in 1..Len(fl) :
                 \A k \in DOMAIN fl[i].attrib :
                   fl[i].attrib[k] \in { << "0" >>, << "1" >> }

\* from_xml has returned the TypeEntry of a type node of a document.
ParsedFromNode == rt.origin = "parsed" /\ rt.pc # "doc"

\* The first child of a node with this tag is missing, or its text is
\* missing, empty, blank or not the text of an integer.
IntChildAnomalous(n, tag) ==
    LET kids == findall(n, tag)
    IN  \/ kids = << >>
        \/ kids[1].text = None
        \/ strip(kids[1].text[1]) = << >>
        \/ ParseInt(kids[1].text[1]) = None

\* The flag attribute k of a node is missing (with or without a flags
\* child) or is not the text of an integer.
FlagAnomalous(n, k) ==
    LET fl == findall(n, "flags")
    IN  \/ fl = << >>
        \/ k \notin DOMAIN fl[1].attrib
        \/ ParseInt(fl[1].attrib[k]) = None

\* C13: from_xml does not fail on field-level anomalies.  It returns a
\* TypeEntry in which an optional integer whose child is missing, empty,
\* blank or not parseable as an integer is absent; a flag whose attribute
\* is missing or not parseable is at its default (count_in_map 1, the
\* others 0); the flags have the six known keys whatever other attributes
\* the flags child carries; and the name is empty when the name attribute
\* is missing.
C13_Anomalies ==
    ParsedFromNode
        => /\ rt.r # None
           /\ LET n == rt.src[1]
                  e == rt.r[1]
              IN  /\ DOMAIN e = DOMAIN TypeEntry(<< >>)
                  /\ \A i \in 1..Len(IntFields) :
                        IntChildAnomalous(n, IntFields[i]) => e[IntFields[i]] = None
                  /\ \A k \in FlagKeySet :
                        FlagAnomalous(n, k)
                            => e.flags[k] = (IF k = "count_in_map" THEN 1 ELSE 0)
                  /\ DOMAIN e.flags = FlagKeySet
                  /\ ("name" \notin DOMAIN n.attrib => e.name = << >>)

\* from_xml has read a node without a name, with a nominal child whose text
\* is no integer and a flags child that carries an unknown attribute, an
\* empty count_in_map and a count_in_cargo that is an integer.
C13_Witness ==
    /\ ParsedFromNode
    /\ rt.pc = "entry"
    /\ "name" \notin DOMAIN rt.src[1].attrib
    /\ findall(rt.src[1], "nominal") = << TextElement("nominal", << "7", "x" >>) >>
    /\ findall(rt.src[1], "flags") # << >>
    /\ "bogus" \in DOMAIN findall(rt.src[1], "flags")[1].attrib
    /\ rt.r[1].name = << >>
    /\ rt.r[1].nominal = None
    /\ rt.r[1].cost = Some(5)
    /\ rt.r[1].flags = [DefaultFlags EXCEPT !["count_in_cargo"] = 1]

\* C14: a save with no position selected of a record whose name is not in
\* the collection appends the record as the last element and leaves every
\* prior record unchanged at its position; the record's category joins the
\* derived category set when it is non-empty and not yet in the set, and
\* otherwise the set is unchanged; the selection moves to the new position.
C14_AddAppends ==
    [][ (/\ last'.op = "save"
         /\ win.currentRow = -1
         /\ collect_entry(last'.form) # None
         /\ ~NameTaken(win.entries, SavedName(last'.form)))
        => LET new == collect_entry(last'.form)[1]
               n   == Len(win.entries)
               cat == new.category
           IN  /\ Len(win'.entries) = n + 1
               /\ win'.entries[n + 1] = new
               /\ \A i \in 1..n : win'.entries[i] = win.entries[i]
               /\ IF cat # None /\ cat[1] # << >>
                     /\ cat[1] \notin Range(win.category_pool)
                  THEN /\ Range(win'.category_pool) =
                            Range(win.category_pool) \cup { cat[1] }
                       /\ Len(win'.category_pool) = Len(win.category_pool) + 1
                  ELSE win'.category_pool = win.category_pool
               /\ win'.currentRow = n
               /\ win'.dialog = "" ]_vars

\* An add has appended a record with a category behind two records and
\* selected it.
C14_Witness ==
    /\ last.op = "save"
    /\ win.dialog = ""
    /\ win.uncaught = ""
    /\ Len(win.entries) = 3
    /\ win.currentRow = 2
    /\ win.entries[3].name = SavedName(last.form)
    /\ win.entries[3].category = Some(<< "z", "z" >>)
    /\ << "z", "z" >> \in Range(win.category_pool)
    /\ win.entries[1].name # win.entries[3].name
    /\ win.entries[2].name # win.entries[3].name

\* C15: in every state reached by select, New Type, save, duplicate,
\* delete, import and New List, the list has no current row or its current
\* row i satisfies 0 <= i < length of the collection; with an empty
\* collection there is no current row.  So the row that duplicate and
\* delete read addresses a record of the collection.
C15_SelectionInRange ==
    /\ \/ win.currentRow = -1
       \/ (0 <= win.currentRow /\ win.currentRow < Len(win.entries))
    /\ (win.entries = << >> => win.currentRow = -1)
    /\ Len(win.list_items) = Len(win.entries)

\* A delete on the first of two imported records has left one record,
\* selected at position 0 and shown in the editor.
C15_Witness ==
    /\ last.op = "delete"
    /\ last.imported_before = "a.xml"
    /\ Len(win.entries) = 1
    /\ win.currentRow = 0
    /\ win.editor_current = Some(win.entries[1])

====
